---------------------------- MODULE Spec2Model ----------------------------
(***************************************************************************)
(* Model of src/browser.js: the browser implementation of eccrypto (ECDSA  *)
(* sign/verify, ECDH derive and ECIES encrypt/decrypt on top of the        *)
(* elliptic curve engine and the WebCrypto backend).                       *)
(*                                                                         *)
(* Buffers are sequences of bytes (0..255) with the lengths the code       *)
(* checks (32, 65, 16).  The collaborators the code calls are modelled by  *)
(* what they do:                                                           *)
(*   - the curve engine is the curve y^2 = x^3 + 7 of secp256k1 over a     *)
(*     small prime field, with real point arithmetic, the uncompressed     *)
(*     point encoding and the minimal big-endian encoding of Px;           *)
(*   - AES-CBC is CBC chaining with PKCS#7 padding over a keyed byte       *)
(*     permutation, and it fails on a wrong IV length or bad padding;      *)
(*   - SHA-512 is a 64-byte digest, injective on the secrets of the curve; *)
(*   - HMAC-SHA256 and ECDSA are ideal: a tag (a signature) is the term    *)
(*     of the key and data it was made from, 32 bytes of it can be         *)
(*     flipped, and it verifies only unflipped, for the same key and data. *)
(***************************************************************************)
EXTENDS Integers, Sequences, FiniteSets, TLC

(***************************************************************************)
(* Program constants: the lengths and the prefix the assertions test.      *)
(***************************************************************************)
PrivateKeyLen == 32
PublicKeyLen == 65
PublicKeyPrefix == 4
MaxMsgLen == 32
IvLen == 16
EncKeyLen == 32

(***************************************************************************)
(* Sizes of the backend's primitives.                                      *)
(***************************************************************************)
BackendSizes == [block |-> 16, digest |-> 64, tag |-> 32]

(***************************************************************************)
(* Bytes.                                                                  *)
(***************************************************************************)
RECURSIVE Xor(_, _)
Xor(a, b) ==
    IF a = 0 THEN b
    ELSE IF b = 0 THEN a
    ELSE ((a + b) % 2) + 2 * Xor(a \div 2, b \div 2)

Pow2(b) == CASE b = 0 -> 1 [] b = 1 -> 2 [] b = 2 -> 4 [] b = 3 -> 8
             [] b = 4 -> 16 [] b = 5 -> 32 [] b = 6 -> 64 [] OTHER -> 128

\* buf with bit `bit` of its byte `idx` (1-based) inverted
FlipBit(buf, idx, bit) == [buf EXCEPT ![idx] = Xor(@, Pow2(bit))]

Zeros(n) == [i \in 1..n |-> 0]

\* big-endian, zero-padded to len bytes (len >= 1), of a value below 65536
ToBytes(v, len) ==
    [i \in 1..len |-> IF i = len THEN v % 256
                      ELSE IF i = len - 1 THEN (v \div 256) % 256
                      ELSE 0]

\* BN.toArray(): minimal big-endian bytes, <<0>> for zero
RECURSIVE ToArray(_)
ToArray(v) == IF v < 256 THEN <<v>> ELSE Append(ToArray(v \div 256), v % 256)

\* Buffer.concat
RECURSIVE Concat(_)
Concat(bufs) == IF bufs = <<>> THEN <<>> ELSE Head(bufs) \o Concat(Tail(bufs))

\* Buffer.slice(from, to): bytes [from, to), 0-based
Slice(buf, from, to) ==
    SubSeq(buf, from + 1, IF to > Len(buf) THEN Len(buf) ELSE to)

(***************************************************************************)
(* The curve engine (elliptic, `ec`): y^2 = x^3 + b over F_p, with a       *)
(* generator g of prime order n.  Points are <<x, y>>; <<>> is infinity.   *)
(***************************************************************************)
Curve == [p |-> 13, b |-> 7, n |-> 7, g |-> <<7, 5>>]

Infinity == <<>>

ModInv(a) == CHOOSE c \in 1..(Curve.p - 1) : (a * c) % Curve.p = 1

PointAdd(P, Q) ==
    IF P = Infinity THEN Q
    ELSE IF Q = Infinity THEN P
    ELSE IF P[1] = Q[1] /\ (P[2] + Q[2]) % Curve.p = 0 THEN Infinity
    ELSE LET l == IF P = Q
                  THEN (3 * P[1] * P[1] * ModInv((2 * P[2]) % Curve.p)) % Curve.p
                  ELSE ((Q[2] - P[2]) * ModInv((Q[1] - P[1]) % Curve.p)) % Curve.p
             x == (l * l - P[1] - Q[1]) % Curve.p
             y == (l * (P[1] - x) - P[2]) % Curve.p
         IN  <<x, y>>

RECURSIVE PointMul(_, _)
PointMul(k, P) == IF k = 0 THEN Infinity ELSE PointAdd(PointMul(k - 1, P), P)

OnCurve(P) ==
    /\ P[1] \in 0..(Curve.p - 1)
    /\ P[2] \in 0..(Curve.p - 1)
    /\ (P[2] * P[2]) % Curve.p = (P[1] * P[1] * P[1] + Curve.b) % Curve.p

\* the valid private scalars
Scalars == 1..(Curve.n - 1)

\* new BN(bytes): the big-endian value (the model's keys stay below 65536)
RECURSIVE BnUpTo(_, _)
BnUpTo(buf, i) == IF i = 0 THEN 0 ELSE BnUpTo(buf, i - 1) * 256 + buf[i]

BnOf(buf) == BnUpTo(buf, Len(buf))

\* point.encode("arr"): 0x04 || X || Y, 65 bytes
EncodePoint(P) ==
    <<PublicKeyPrefix>> \o ToBytes(P[1], (PublicKeyLen - 1) \div 2)
                        \o ToBytes(P[2], (PublicKeyLen - 1) \div 2)

\* ec.keyFromPrivate(privateKey).getPublic("arr")
EcPublic(privateKey) == EncodePoint(PointMul(BnOf(privateKey), Curve.g))

\* the points of the group, and curve.decodePoint on their encodings
GroupPoints == {PointMul(k, Curve.g) : k \in Scalars}
PointEncodings == {EncodePoint(P) : P \in GroupPoints}
PointOfEncoding ==
    [e \in PointEncodings |-> CHOOSE P \in GroupPoints : EncodePoint(P) = e]
IsPointEncoding(pub) == pub \in PointEncodings
DecodePoint(pub) == PointOfEncoding[pub]

(***************************************************************************)
(* The WebCrypto backend (`subtle`).  A primitive's outcome is its value   *)
(* or its failure.                                                         *)
(***************************************************************************)
Ok(v) == [ok |-> TRUE, err |-> "", val |-> v]
Fail(e) == [ok |-> FALSE, err |-> e, val |-> <<>>]

\* subtle.digest SHA-512: 64 bytes, injective on the secrets of the curve
Sha512(msg) ==
    [i \in 1..BackendSizes.digest |-> (BnOf(msg) * (2 * i + 1) + i) % 256]

XorBlock(a, b) == [i \in 1..BackendSizes.block |-> Xor(a[i], b[i])]

\* the block cipher under a 32-byte key, and its inverse
BlockEncrypt(key, blk) ==
    [i \in 1..BackendSizes.block |->
        (blk[i] + key[i] + key[i + BackendSizes.block]) % 256]
BlockDecrypt(key, blk) ==
    [i \in 1..BackendSizes.block |->
        (blk[i] + 512 - key[i] - key[i + BackendSizes.block]) % 256]

\* PKCS#7: 1..16 bytes of padding, each the padding's length
Pad(data) ==
    LET n == BackendSizes.block - (Len(data) % BackendSizes.block)
    IN  data \o [i \in 1..n |-> n]
PadLen(padded) == padded[Len(padded)]
PadOk(padded) ==
    /\ Len(padded) > 0
    /\ PadLen(padded) \in 1..BackendSizes.block
    /\ \A i \in (Len(padded) - PadLen(padded) + 1)..Len(padded) :
           padded[i] = PadLen(padded)
Unpad(padded) == SubSeq(padded, 1, Len(padded) - PadLen(padded))

RECURSIVE CbcEncrypt(_, _, _)
CbcEncrypt(prev, key, plain) ==
    IF plain = <<>> THEN <<>>
    ELSE LET c == BlockEncrypt(key,
                     XorBlock(SubSeq(plain, 1, BackendSizes.block), prev))
         IN  c \o CbcEncrypt(c, key,
                     SubSeq(plain, BackendSizes.block + 1, Len(plain)))

RECURSIVE CbcDecrypt(_, _, _)
CbcDecrypt(prev, key, cipher) ==
    IF cipher = <<>> THEN <<>>
    ELSE LET c == SubSeq(cipher, 1, BackendSizes.block)
         IN  XorBlock(BlockDecrypt(key, c), prev)
             \o CbcDecrypt(c, key,
                     SubSeq(cipher, BackendSizes.block + 1, Len(cipher)))

\* getAes("encrypt"): importKey, then subtle.encrypt, then a Buffer
aesCbcEncrypt(iv, key, data) ==
    IF Len(key) # EncKeyLen THEN Fail("DataError")
    ELSE IF Len(iv) # BackendSizes.block THEN Fail("OperationError")
    ELSE Ok(CbcEncrypt(iv, key, Pad(data)))

\* getAes("decrypt"): importKey, then subtle.decrypt, then a Buffer
aesCbcDecrypt(iv, key, data) ==
    IF Len(key) # EncKeyLen THEN Fail("DataError")
    ELSE IF \/ Len(iv) # BackendSizes.block
            \/ Len(data) = 0
            \/ Len(data) % BackendSizes.block # 0
         THEN Fail("OperationError")
    ELSE LET padded == CbcDecrypt(iv, key, data)
         IN  IF PadOk(padded) THEN Ok(Unpad(padded)) ELSE Fail("OperationError")

\* An HMAC tag: the term of its key and data, and the bits flipped in its
\* 32 bytes since.
NoMac == [key |-> <<>>, data |-> <<>>, x |-> <<>>]
hmacSha256Sign(key, msg) ==
    [key |-> key, data |-> msg, x |-> Zeros(BackendSizes.tag)]
\* (a verification that compares the term and not the 32 bytes)
hmacSha256VerifyLoose(key, msg, sig) == sig.key = key /\ sig.data = msg
hmacSha256Verify(key, msg, sig) == sig = hmacSha256Sign(key, msg)

(***************************************************************************)
(* ECDSA of the curve engine, ideal: a signature is the term of the        *)
(* signer's scalar and the message; it verifies under the signer's point   *)
(* and for the same message only.                                          *)
(***************************************************************************)
NoSig == [signer |-> 0, msg |-> <<>>]
EcSign(msg, privateKey) == [signer |-> BnOf(privateKey), msg |-> msg]
EcVerify(msg, sig, publicKey) ==
    /\ sig.signer \in Scalars
    /\ EncodePoint(PointMul(sig.signer, Curve.g)) = publicKey
    /\ sig.msg = msg

(***************************************************************************)
(* The state.  `subtle` is the backend handle the module captures when it  *)
(* is loaded (absent in an environment without WebCrypto).  `calls` are    *)
(* the invocations in flight, one per slot: the arguments, the closure     *)
(* variables of the promise chain, the value the last settled step passed  *)
(* on, the position in the chain, the outcome, and the primitives invoked  *)
(* so far.  `box` is the last result the caller took out of a settled      *)
(* call, which later calls take their envelope or signature from.          *)
(***************************************************************************)
VARIABLES subtle, calls, box

vars == <<subtle, calls, box>>

NoEnvelope == [iv |-> <<>>, ephemPublicKey |-> <<>>, ciphertext |-> <<>>,
               mac |-> NoMac]
NoOpts == [hasEph |-> FALSE, ephemPrivateKey |-> <<>>,
           hasIv |-> FALSE, iv |-> <<>>]
\* where an envelope passed to decrypt comes from: the message, the
\* recipient and the shared secret Px of the encrypt call that made it, and
\* the field the caller has flipped a bit of since
NoOrigin == [plain |-> <<>>, to |-> <<>>, secret |-> <<>>,
             flipped |-> "none", idx |-> 0]

Idle == [op |-> "none", pc |-> "idle", status |-> "none", err |-> "",
         privateKey |-> <<>>, publicKey |-> <<>>, msg |-> <<>>,
         sig |-> NoSig, opts |-> NoOpts, env |-> NoEnvelope,
         origin |-> NoOrigin,
         iv |-> <<>>, ephemPublicKey |-> <<>>, ciphertext |-> <<>>,
         macKey |-> <<>>, encryptionKey |-> <<>>,
         val |-> <<>>, mac |-> NoMac, macGood |-> FALSE,
         out |-> <<>>, outEnv |-> NoEnvelope, outSig |-> NoSig,
         trace |-> <<>>]

EmptyBox == [kind |-> "none", env |-> NoEnvelope, sig |-> NoSig,
             plain |-> <<>>, to |-> <<>>, secret |-> <<>>]

\* one invocation of a collaborator
Ev(prim, key, iv, data) == [prim |-> prim, key |-> key, iv |-> iv, data |-> data]

\* the positions in a call's trace where it invoked collaborator `prim`
At(k, prim) == {i \in DOMAIN k.trace : k.trace[i].prim = prim}

Settled(k) == k.status \in {"resolved", "rejected", "threw", "returned"}

(***************************************************************************)
(* The error messages of the code, by the class the specification gives    *)
(* them.                                                                   *)
(***************************************************************************)
InvalidInput == {"Bad private key", "Bad public key",
                 "Message should not be empty", "Message is too long"}
BadSignature == "Bad signature"
BadMac == "Bad MAC"
PrimitiveUnavailable == "WebCryptoAPI is not available"
CurveError == "curve engine error"

(***************************************************************************)
(* getPublic, and the bodies of sign, verify and derive: the outcome and   *)
(* the collaborators invoked on the way (`ops`).                           *)
(***************************************************************************)
Done(v, ops) == [ok |-> TRUE, err |-> "", val |-> v, sig |-> NoSig, ops |-> ops]
DoneSig(s, ops) == [ok |-> TRUE, err |-> "", val |-> <<>>, sig |-> s, ops |-> ops]
Thrown(e, ops) == [ok |-> FALSE, err |-> e, val |-> <<>>, sig |-> NoSig, ops |-> ops]

getPublic(privateKey) ==
    IF Len(privateKey) # PrivateKeyLen THEN Thrown("Bad private key", <<>>)
    ELSE Done(EcPublic(privateKey), <<Ev("ec.getPublic", privateKey, <<>>, <<>>)>>)

sign(privateKey, msg) ==
    IF Len(privateKey) # PrivateKeyLen THEN Thrown("Bad private key", <<>>)
    ELSE IF ~(Len(msg) > 0) THEN Thrown("Message should not be empty", <<>>)
    ELSE IF ~(Len(msg) <= MaxMsgLen) THEN Thrown("Message is too long", <<>>)
    ELSE DoneSig(EcSign(msg, privateKey), <<Ev("ec.sign", privateKey, <<>>, msg)>>)

\* (verify without the test of the prefix byte)
verifyNoPrefix(publicKey, msg, sig) ==
    IF Len(publicKey) # PublicKeyLen THEN Thrown("Bad public key", <<>>)
    ELSE IF ~(Len(msg) > 0) THEN Thrown("Message should not be empty", <<>>)
    ELSE IF ~(Len(msg) <= MaxMsgLen) THEN Thrown("Message is too long", <<>>)
    ELSE IF EcVerify(msg, sig, publicKey)
         THEN Done(<<>>, <<Ev("ec.verify", publicKey, <<>>, msg)>>)
         ELSE Thrown(BadSignature, <<Ev("ec.verify", publicKey, <<>>, msg)>>)

\* (verify that resolves whatever the engine answers)
verifyAlways(publicKey, msg, sig) ==
    IF Len(publicKey) # PublicKeyLen THEN Thrown("Bad public key", <<>>)
    ELSE IF publicKey[1] # PublicKeyPrefix THEN Thrown("Bad public key", <<>>)
    ELSE IF ~(Len(msg) > 0) THEN Thrown("Message should not be empty", <<>>)
    ELSE IF ~(Len(msg) <= MaxMsgLen) THEN Thrown("Message is too long", <<>>)
    ELSE Done(<<>>, <<Ev("ec.verify", publicKey, <<>>, msg)>>)

verify(publicKey, msg, sig) ==
    IF Len(publicKey) # PublicKeyLen THEN Thrown("Bad public key", <<>>)
    ELSE IF publicKey[1] # PublicKeyPrefix THEN Thrown("Bad public key", <<>>)
    ELSE IF ~(Len(msg) > 0) THEN Thrown("Message should not be empty", <<>>)
    ELSE IF ~(Len(msg) <= MaxMsgLen) THEN Thrown("Message is too long", <<>>)
    ELSE IF EcVerify(msg, sig, publicKey)
         THEN Done(<<>>, <<Ev("ec.verify", publicKey, <<>>, msg)>>)
         ELSE Thrown(BadSignature, <<Ev("ec.verify", publicKey, <<>>, msg)>>)

\* the X the engine may compute from bytes that encode no point
NumStray == 2
StrayXs == 0..(NumStray - 1)

\* keyA.derive(keyB.getPublic()): the X of the shared point.  For 65 bytes
\* that encode no point of the curve the engine either refuses or computes
\* on: any X, or an error.
EcDerive(privateKeyA, publicKeyB) ==
    IF IsPointEncoding(publicKeyB)
    THEN {Ok(ToArray(PointMul(BnOf(privateKeyA), DecodePoint(publicKeyB))[1]))}
    ELSE {Fail(CurveError)} \cup {Ok(ToArray(x)) : x \in StrayXs}

derive(privateKeyA, publicKeyB) ==
    IF Len(privateKeyA) # PrivateKeyLen THEN {Thrown("Bad private key", <<>>)}
    ELSE IF Len(publicKeyB) # PublicKeyLen THEN {Thrown("Bad public key", <<>>)}
    ELSE IF publicKeyB[1] # PublicKeyPrefix THEN {Thrown("Bad public key", <<>>)}
    ELSE {IF r.ok
          THEN Done(r.val, <<Ev("ec.derive", privateKeyA, <<>>, publicKeyB)>>)
          ELSE Thrown(r.err, <<Ev("ec.derive", privateKeyA, <<>>, publicKeyB)>>)
          : r \in EcDerive(privateKeyA, publicKeyB)}

(***************************************************************************)
(* Bounds of the model, and the arguments the callers draw from.           *)
(***************************************************************************)
NumKeys == 2
MaxCalls == 2

PrivateKeys == {ToBytes(k, PrivateKeyLen) : k \in 1..NumKeys}
PublicKeys == {EcPublic(k) : k \in PrivateKeys}
\* what randomBytes(32) yields, and what a caller supplies as
\* opts.ephemPrivateKey
RandomKeys == {ToBytes(Curve.n - 1, PrivateKeyLen)}
SuppliedKeys == {ToBytes(Curve.n - 2, PrivateKeyLen)}
\* what randomBytes(16) yields, and what a caller supplies as opts.iv
RandomIvs == {[i \in 1..IvLen |-> 16 + i]}
SuppliedIvs == {[i \in 1..IvLen |-> 255 - i]}
\* the bits of a byte a caller flips: the lowest and the highest
FlipBits == {0, 7}

BadPrivateKeys == {ToBytes(1, PrivateKeyLen - 1), ToBytes(1, PrivateKeyLen + 1)}
BadPublicKeys ==
    LET pk == EcPublic(ToBytes(1, PrivateKeyLen))
    IN  {SubSeq(pk, 1, PublicKeyLen - 1), pk \o <<0>>, [pk EXCEPT ![1] = 3]}
BadIvs == {[i \in 1..(IvLen - 1) |-> i]}

\* "test", and one full block
PlainMsgs == {<<116, 101, 115, 116>>, [i \in 1..BackendSizes.block |-> 200 + i]}
SignMsgs == {<<1>>, [i \in 1..MaxMsgLen |-> i]}
BadSignMsgs == {<<>>, [i \in 1..(MaxMsgLen + 1) |-> i]}

OptsSet ==
    {[hasEph |-> he, ephemPrivateKey |-> e, hasIv |-> hi, iv |-> v] :
        he \in BOOLEAN, e \in SuppliedKeys \cup BadPrivateKeys \cup {<<>>},
        hi \in BOOLEAN, v \in SuppliedIvs \cup BadIvs \cup {<<>>}}
\* opts: each of ephemPrivateKey and iv is absent or a buffer
Opts == {o \in OptsSet : (o.hasEph <=> o.ephemPrivateKey # <<>>)
                         /\ (o.hasIv <=> o.iv # <<>>)}

Fields == {"iv", "ephemPublicKey", "ciphertext", "mac"}

\* the envelope with one bit of one field inverted
Tamper(env, field, idx, bit) ==
    CASE field = "iv" -> [env EXCEPT !.iv = FlipBit(@, idx, bit)]
      [] field = "ephemPublicKey" ->
             [env EXCEPT !.ephemPublicKey = FlipBit(@, idx, bit)]
      [] field = "ciphertext" ->
             [env EXCEPT !.ciphertext = FlipBit(@, idx, bit)]
      [] OTHER -> [env EXCEPT !.mac.x = FlipBit(@, idx, bit)]

FieldLen(env, field) ==
    CASE field = "iv" -> Len(env.iv)
      [] field = "ephemPublicKey" -> Len(env.ephemPublicKey)
      [] field = "ciphertext" -> Len(env.ciphertext)
      [] OTHER -> Len(env.mac.x)

(***************************************************************************)
(* The operations.                                                         *)
(***************************************************************************)
Set(c, k) == calls' = [calls EXCEPT ![c] = k]

Reject(k, e, ops) ==
    [k EXCEPT !.status = "rejected", !.pc = "done", !.err = e,
              !.trace = @ \o ops]

\* getPublic: synchronous, returns or throws
CallGetPublic(c, privateKey) ==
    /\ calls[c].status = "none"
    /\ LET r == getPublic(privateKey)
           k == [Idle EXCEPT !.op = "getPublic", !.privateKey = privateKey,
                             !.pc = "done", !.trace = r.ops]
       IN  Set(c, IF r.ok THEN [k EXCEPT !.status = "returned", !.out = r.val]
                  ELSE [k EXCEPT !.status = "threw", !.err = r.err])
    /\ UNCHANGED <<subtle, box>>

\* sign: the executor runs inside the call, the promise is settled by it
CallSign(c, privateKey, msg) ==
    /\ calls[c].status = "none"
    /\ LET r == sign(privateKey, msg)
           k == [Idle EXCEPT !.op = "sign", !.privateKey = privateKey,
                             !.msg = msg, !.pc = "done", !.trace = r.ops]
       IN  Set(c, IF r.ok THEN [k EXCEPT !.status = "resolved", !.outSig = r.sig]
                  ELSE [k EXCEPT !.status = "rejected", !.err = r.err])
    /\ UNCHANGED <<subtle, box>>

CallVerify(c, publicKey, msg, sig) ==
    /\ calls[c].status = "none"
    /\ LET r == verify(publicKey, msg, sig)
           k == [Idle EXCEPT !.op = "verify", !.publicKey = publicKey,
                             !.msg = msg, !.sig = sig, !.pc = "done",
                             !.trace = r.ops]
       IN  Set(c, IF r.ok THEN [k EXCEPT !.status = "resolved"]
                  ELSE [k EXCEPT !.status = "rejected", !.err = r.err])
    /\ UNCHANGED <<subtle, box>>

CallDerive(c, privateKeyA, publicKeyB) ==
    /\ calls[c].status = "none"
    /\ \E r \in derive(privateKeyA, publicKeyB) :
         LET k == [Idle EXCEPT !.op = "derive", !.privateKey = privateKeyA,
                               !.publicKey = publicKeyB, !.pc = "done",
                               !.trace = r.ops]
         IN  Set(c, IF r.ok THEN [k EXCEPT !.status = "resolved", !.out = r.val]
                    ELSE [k EXCEPT !.status = "rejected", !.err = r.err])
    /\ UNCHANGED <<subtle, box>>

\* encrypt: the backend check, then the executor of the first promise:
\* the ephemeral key, its public key, and derive
CallEncrypt(c, publicKeyTo, msg, opts) ==
    /\ calls[c].status = "none"
    /\ LET k == [Idle EXCEPT !.op = "encrypt", !.publicKey = publicKeyTo,
                             !.msg = msg, !.opts = opts]
       IN  IF ~subtle
           THEN Set(c, [k EXCEPT !.status = "threw", !.pc = "done",
                                 !.err = PrimitiveUnavailable])
           ELSE \E ephemPrivateKey \in
                      (IF opts.hasEph THEN {opts.ephemPrivateKey} ELSE RandomKeys) :
                  LET drawn == IF opts.hasEph THEN <<>>
                               ELSE <<Ev("randomBytes", <<>>, <<>>, ephemPrivateKey)>>
                      pub == getPublic(ephemPrivateKey)
                  IN  IF ~pub.ok
                      THEN Set(c, Reject(k, pub.err, drawn \o pub.ops))
                      ELSE \E px \in derive(ephemPrivateKey, publicKeyTo) :
                             LET k1 == [k EXCEPT !.ephemPublicKey = pub.val]
                                 ops == drawn \o pub.ops \o px.ops
                             IN  Set(c, IF px.ok
                                        THEN [k1 EXCEPT !.status = "pending",
                                                        !.pc = "derived",
                                                        !.val = px.val,
                                                        !.trace = ops]
                                        ELSE Reject(k1, px.err, ops))
    /\ UNCHANGED <<subtle, box>>

\* .then(function(Px) { return sha512(Px); })
EncHash(c) ==
    /\ calls[c].op = "encrypt" /\ calls[c].pc = "derived"
    /\ Set(c, [calls[c] EXCEPT
                 !.pc = "hashed",
                 !.val = Sha512(@),
                 !.trace = Append(@, Ev("sha512", <<>>, <<>>, calls[c].val))])
    /\ UNCHANGED <<subtle, box>>

\* (the callback with one key for both purposes)
EncCipherOneKey(c) ==
    /\ calls[c].op = "encrypt" /\ calls[c].pc = "hashed"
    /\ \E iv \in (IF calls[c].opts.hasIv THEN {calls[c].opts.iv} ELSE RandomIvs) :
         LET k == calls[c]
             hash == k.val
             drawn == IF k.opts.hasIv THEN <<>>
                      ELSE <<Ev("randomBytes", <<>>, <<>>, iv)>>
             encryptionKey == Slice(hash, 0, 32)
             macKey == Slice(hash, 0, 32)
             data == aesCbcEncrypt(iv, encryptionKey, k.msg)
             ops == drawn \o <<Ev("aes.encrypt", encryptionKey, iv, k.msg)>>
             k1 == [k EXCEPT !.iv = iv, !.macKey = macKey]
         IN  Set(c, IF data.ok
                    THEN [k1 EXCEPT !.pc = "ciphered", !.val = data.val,
                                    !.trace = @ \o ops]
                    ELSE Reject(k1, data.err, ops))
    /\ UNCHANGED <<subtle, box>>

\* .then(function(hash) { iv, encryptionKey, macKey; aesCbcEncrypt })
EncCipher(c) ==
    /\ calls[c].op = "encrypt" /\ calls[c].pc = "hashed"
    /\ \E iv \in (IF calls[c].opts.hasIv THEN {calls[c].opts.iv} ELSE RandomIvs) :
         LET k == calls[c]
             hash == k.val
             drawn == IF k.opts.hasIv THEN <<>>
                      ELSE <<Ev("randomBytes", <<>>, <<>>, iv)>>
             encryptionKey == Slice(hash, 0, 32)
             macKey == Slice(hash, 32, Len(hash))
             data == aesCbcEncrypt(iv, encryptionKey, k.msg)
             ops == drawn \o <<Ev("aes.encrypt", encryptionKey, iv, k.msg)>>
             k1 == [k EXCEPT !.iv = iv, !.macKey = macKey]
         IN  Set(c, IF data.ok
                    THEN [k1 EXCEPT !.pc = "ciphered", !.val = data.val,
                                    !.trace = @ \o ops]
                    ELSE Reject(k1, data.err, ops))
    /\ UNCHANGED <<subtle, box>>

\* (the callback with macKey a variable of the module, shared by the calls:
\* it reads what the call that hashed last has written)
EncMacShared(c) ==
    /\ calls[c].op = "encrypt" /\ calls[c].pc = "ciphered"
    /\ LET k == calls[c]
           others == {d \in DOMAIN calls : d # c /\ calls[d].macKey # <<>>}
           macKey == IF others = {} THEN k.macKey
                     ELSE calls[CHOOSE d \in others : TRUE].macKey
           ciphertext == k.val
           dataToMac == Concat(<<k.iv, k.ephemPublicKey, ciphertext>>)
       IN  Set(c, [k EXCEPT
                     !.pc = "maced",
                     !.ciphertext = ciphertext,
                     !.val = <<>>,
                     !.mac = hmacSha256Sign(macKey, dataToMac),
                     !.trace = Append(@, Ev("hmac.sign", macKey, <<>>, dataToMac))])
    /\ UNCHANGED <<subtle, box>>

\* .then(function(data) { ciphertext = data; dataToMac; hmacSha256Sign })
EncMac(c) ==
    /\ calls[c].op = "encrypt" /\ calls[c].pc = "ciphered"
    /\ LET k == calls[c]
           ciphertext == k.val
           dataToMac == Concat(<<k.iv, k.ephemPublicKey, ciphertext>>)
       IN  Set(c, [k EXCEPT
                     !.pc = "maced",
                     !.ciphertext = ciphertext,
                     !.val = <<>>,
                     !.mac = hmacSha256Sign(k.macKey, dataToMac),
                     !.trace = Append(@, Ev("hmac.sign", k.macKey, <<>>, dataToMac))])
    /\ UNCHANGED <<subtle, box>>

\* .then(function(mac) { return {iv, ephemPublicKey, ciphertext, mac}; })
EncReturn(c) ==
    /\ calls[c].op = "encrypt" /\ calls[c].pc = "maced"
    /\ LET k == calls[c]
       IN  Set(c, [k EXCEPT
                     !.pc = "done",
                     !.status = "resolved",
                     !.outEnv = [iv |-> k.iv,
                                 ephemPublicKey |-> k.ephemPublicKey,
                                 ciphertext |-> k.ciphertext,
                                 mac |-> k.mac]])
    /\ UNCHANGED <<subtle, box>>

\* decrypt: the backend check, then derive(privateKey, opts.ephemPublicKey)
CallDecrypt(c, privateKey, env, origin) ==
    /\ calls[c].status = "none"
    /\ LET k == [Idle EXCEPT !.op = "decrypt", !.privateKey = privateKey,
                             !.env = env, !.origin = origin]
       IN  IF ~subtle
           THEN Set(c, [k EXCEPT !.status = "threw", !.pc = "done",
                                 !.err = PrimitiveUnavailable])
           ELSE \E px \in derive(privateKey, env.ephemPublicKey) :
                  Set(c, IF px.ok
                         THEN [k EXCEPT !.status = "pending", !.pc = "derived",
                                        !.val = px.val, !.trace = px.ops]
                         ELSE Reject(k, px.err, px.ops))
    /\ UNCHANGED <<subtle, box>>

\* .then(function(Px) { return sha512(Px); })
DecHash(c) ==
    /\ calls[c].op = "decrypt" /\ calls[c].pc = "derived"
    /\ Set(c, [calls[c] EXCEPT
                 !.pc = "hashed",
                 !.val = Sha512(@),
                 !.trace = Append(@, Ev("sha512", <<>>, <<>>, calls[c].val))])
    /\ UNCHANGED <<subtle, box>>

\* (the callback with the halves of the hash exchanged)
DecVerifySwapped(c) ==
    /\ calls[c].op = "decrypt" /\ calls[c].pc = "hashed"
    /\ LET k == calls[c]
           hash == k.val
           macKey == Slice(hash, 0, 32)
           dataToMac == Concat(<<k.env.iv, k.env.ephemPublicKey, k.env.ciphertext>>)
       IN  Set(c, [k EXCEPT
                     !.pc = "macChecked",
                     !.encryptionKey = Slice(hash, 32, Len(hash)),
                     !.val = <<>>,
                     !.macGood = hmacSha256Verify(macKey, dataToMac, k.env.mac),
                     !.trace = Append(@, Ev("hmac.verify", macKey, <<>>, dataToMac))])
    /\ UNCHANGED <<subtle, box>>

\* .then(function(hash) { encryptionKey, macKey, dataToMac; hmacSha256Verify })
DecVerify(c) ==
    /\ calls[c].op = "decrypt" /\ calls[c].pc = "hashed"
    /\ LET k == calls[c]
           hash == k.val
           macKey == Slice(hash, 32, Len(hash))
           dataToMac == Concat(<<k.env.iv, k.env.ephemPublicKey, k.env.ciphertext>>)
       IN  Set(c, [k EXCEPT
                     !.pc = "macChecked",
                     !.encryptionKey = Slice(hash, 0, 32),
                     !.val = <<>>,
                     !.macGood = hmacSha256Verify(macKey, dataToMac, k.env.mac),
                     !.trace = Append(@, Ev("hmac.verify", macKey, <<>>, dataToMac))])
    /\ UNCHANGED <<subtle, box>>

\* (the callback that decrypts first and tests macGood afterwards)
DecCipherUnchecked(c) ==
    /\ calls[c].op = "decrypt" /\ calls[c].pc = "macChecked"
    /\ LET k == calls[c]
           msg == aesCbcDecrypt(k.env.iv, k.encryptionKey, k.env.ciphertext)
           ops == <<Ev("aes.decrypt", k.encryptionKey, k.env.iv, k.env.ciphertext)>>
       IN  Set(c, IF ~msg.ok THEN Reject(k, msg.err, ops)
                  ELSE IF ~k.macGood THEN Reject(k, BadMac, ops)
                  ELSE [k EXCEPT !.pc = "decrypted", !.val = msg.val,
                                 !.trace = @ \o ops])
    /\ UNCHANGED <<subtle, box>>

\* (the callback that drops a failed verification: the chain stops)
DecCipherSilent(c) ==
    /\ calls[c].op = "decrypt" /\ calls[c].pc = "macChecked"
    /\ LET k == calls[c]
           msg == aesCbcDecrypt(k.env.iv, k.encryptionKey, k.env.ciphertext)
           ops == <<Ev("aes.decrypt", k.encryptionKey, k.env.iv, k.env.ciphertext)>>
       IN  Set(c, IF ~k.macGood THEN [k EXCEPT !.pc = "lost"]
                  ELSE IF msg.ok
                  THEN [k EXCEPT !.pc = "decrypted", !.val = msg.val,
                                 !.trace = @ \o ops]
                  ELSE Reject(k, msg.err, ops))
    /\ UNCHANGED <<subtle, box>>

\* .then(function(macGood) { assert(macGood, "Bad MAC"); aesCbcDecrypt })
DecCipher(c) ==
    /\ calls[c].op = "decrypt" /\ calls[c].pc = "macChecked"
    /\ LET k == calls[c]
           msg == aesCbcDecrypt(k.env.iv, k.encryptionKey, k.env.ciphertext)
           ops == <<Ev("aes.decrypt", k.encryptionKey, k.env.iv, k.env.ciphertext)>>
       IN  Set(c, IF ~k.macGood THEN Reject(k, BadMac, <<>>)
                  ELSE IF msg.ok
                  THEN [k EXCEPT !.pc = "decrypted", !.val = msg.val,
                                 !.trace = @ \o ops]
                  ELSE Reject(k, msg.err, ops))
    /\ UNCHANGED <<subtle, box>>

\* .then(function(msg) { return new Buffer(new Uint8Array(msg)); })
DecReturn(c) ==
    /\ calls[c].op = "decrypt" /\ calls[c].pc = "decrypted"
    /\ Set(c, [calls[c] EXCEPT !.pc = "done", !.status = "resolved",
                               !.out = calls[c].val, !.val = <<>>])
    /\ UNCHANGED <<subtle, box>>

\* the caller takes the outcome of a settled call; an envelope or a
\* signature it keeps for later calls
Collect(c) ==
    /\ Settled(calls[c])
    /\ box' = IF calls[c].op = "encrypt" /\ calls[c].status = "resolved"
              THEN [kind |-> "envelope", env |-> calls[c].outEnv, sig |-> NoSig,
                    plain |-> calls[c].msg, to |-> calls[c].publicKey,
                    secret |-> calls[c].trace[CHOOSE i \in At(calls[c], "sha512") :
                                                TRUE].data]
              ELSE IF calls[c].op = "sign" /\ calls[c].status = "resolved"
              THEN [kind |-> "signature", env |-> NoEnvelope,
                    sig |-> calls[c].outSig, plain |-> calls[c].msg,
                    to |-> EcPublic(calls[c].privateKey), secret |-> <<>>]
              ELSE box
    /\ Set(c, Idle)
    /\ UNCHANGED subtle

(***************************************************************************)
(* The callers.                                                            *)
(***************************************************************************)
Untouched == [plain |-> box.plain, to |-> box.to, secret |-> box.secret,
              flipped |-> "none", idx |-> 0]

\* decrypt of the kept envelope as it is, under any key
DecryptKept(c) ==
    /\ box.kind = "envelope"
    /\ \E privateKey \in PrivateKeys \cup BadPrivateKeys :
         CallDecrypt(c, privateKey, box.env, Untouched)

\* decrypt of the kept envelope with one bit flipped, under its recipient's key
DecryptTampered(c) ==
    /\ box.kind = "envelope"
    /\ \E privateKey \in {k \in PrivateKeys : EcPublic(k) = box.to} :
         \E field \in Fields, bit \in FlipBits :
           \E idx \in 1..FieldLen(box.env, field) :
             CallDecrypt(c, privateKey, Tamper(box.env, field, idx, bit),
                         [plain |-> box.plain, to |-> box.to,
                          secret |-> box.secret,
                          flipped |-> field, idx |-> idx])

VerifyKept(c) ==
    /\ box.kind = "signature"
    /\ \E publicKey \in PublicKeys \cup BadPublicKeys,
          msg \in SignMsgs \cup BadSignMsgs :
         CallVerify(c, publicKey, msg, box.sig)

Init ==
    /\ subtle \in BOOLEAN
    /\ calls = [c \in 1..1 |-> Idle]
    /\ box = EmptyBox

Next ==
    \/ \E privateKey \in PrivateKeys \cup BadPrivateKeys :
         CallGetPublic(1, privateKey)
    \/ \E privateKey \in PrivateKeys \cup BadPrivateKeys,
          msg \in SignMsgs \cup BadSignMsgs :
         CallSign(1, privateKey, msg)
    \/ VerifyKept(1)
    \/ \E privateKey \in PrivateKeys \cup BadPrivateKeys,
          publicKey \in PublicKeys \cup BadPublicKeys :
         CallDerive(1, privateKey, publicKey)
    \/ \E publicKeyTo \in PublicKeys \cup BadPublicKeys,
          msg \in PlainMsgs, opts \in Opts :
         CallEncrypt(1, publicKeyTo, msg, opts)
    \/ DecryptKept(1)
    \/ DecryptTampered(1)
    \/ EncHash(1) \/ EncCipher(1) \/ EncMac(1) \/ EncReturn(1)
    \/ DecHash(1) \/ DecVerify(1) \/ DecCipher(1) \/ DecReturn(1)
    \/ Collect(1)

Spec == Init /\ [][Next]_vars

(***************************************************************************)
(* Several calls in flight: the callbacks of the calls interleave in any   *)
(* order.  The callers encrypt to the known recipients and decrypt the     *)
(* kept envelope.                                                          *)
(***************************************************************************)
InitConc ==
    /\ subtle = TRUE
    /\ calls = [c \in 1..MaxCalls |-> Idle]
    /\ box = EmptyBox

\* the two parties of the concurrent runs
Parties == {ToBytes(k, PrivateKeyLen) : k \in {1, 2}}

EncryptTest(c) ==
    \E publicKeyTo \in {EcPublic(k) : k \in Parties} :
        CallEncrypt(c, publicKeyTo, <<116, 101, 115, 116>>, NoOpts)

DecryptOwn(c) ==
    /\ box.kind = "envelope"
    /\ \E privateKey \in {k \in Parties : EcPublic(k) = box.to} :
         CallDecrypt(c, privateKey, box.env, Untouched)

NextConc ==
    \E c \in 1..MaxCalls :
        \/ EncryptTest(c)
        \/ DecryptOwn(c)
        \/ EncHash(c) \/ EncCipher(c) \/ EncMac(c) \/ EncReturn(c)
        \/ DecHash(c) \/ DecVerify(c) \/ DecCipher(c) \/ DecReturn(c)
        \/ Collect(c)

ConcSpec == InitConc /\ [][NextConc]_vars

(***************************************************************************)
(* The event loop runs every callback whose promise has settled.           *)
(***************************************************************************)
FairSpec ==
    /\ Spec
    /\ WF_vars(EncHash(1)) /\ WF_vars(EncCipher(1))
    /\ WF_vars(EncMac(1)) /\ WF_vars(EncReturn(1))
    /\ WF_vars(DecHash(1)) /\ WF_vars(DecVerify(1))
    /\ WF_vars(DecCipher(1)) /\ WF_vars(DecReturn(1))

(***************************************************************************)
(* Properties.                                                             *)
(***************************************************************************)
WellFormedPublic(pub) == Len(pub) = PublicKeyLen /\ pub[1] = PublicKeyPrefix
WellFormedMsg(msg) == Len(msg) > 0 /\ Len(msg) <= MaxMsgLen
Failed(k) == k.status \in {"rejected", "threw"}
NoValue(k) == k.out = <<>> /\ k.outEnv = NoEnvelope /\ k.outSig = NoSig

\* C1: in every decrypt call the symmetric decryption is invoked only after
\* the HMAC verification of iv || ephemPublicKey || ciphertext against
\* envelope.mac has completed and reported true; when it has reported false
\* the symmetric decryption is never invoked and the call fails with Bad MAC.
C1_AuthenticateThenDecrypt ==
    \A c \in DOMAIN calls :
        LET k == calls[c]
            dataToMac == Concat(<<k.env.iv, k.env.ephemPublicKey, k.env.ciphertext>>)
        IN  k.op = "decrypt" =>
              /\ \A i \in At(k, "aes.decrypt") :
                   \E j \in At(k, "hmac.verify") :
                      /\ j < i
                      /\ k.trace[j].data = dataToMac
                      /\ hmacSha256Verify(k.trace[j].key, dataToMac, k.env.mac)
              /\ (At(k, "hmac.verify") # {} /\ ~k.macGood) =>
                   /\ At(k, "aes.decrypt") = {}
                   /\ k.pc = "done" =>
                        k.status = "rejected" /\ k.err = BadMac /\ NoValue(k)

C1_Witness ==
    \E c \in DOMAIN calls :
        /\ calls[c].op = "decrypt" /\ calls[c].status = "rejected"
        /\ calls[c].err = BadMac /\ At(calls[c], "hmac.verify") # {}

\* C2: with the backend present, encrypt to a valid public key resolves for
\* every message and every ephemeral key and IV, drawn or supplied through
\* opts; and decrypt of the envelope it resolved to, under the private key of
\* that public key, resolves to the message unchanged.
ValidOpts(o) ==
    /\ o.hasEph => Len(o.ephemPrivateKey) = PrivateKeyLen
    /\ o.hasIv => Len(o.iv) = IvLen

C2_RoundTrip ==
    \A c \in DOMAIN calls :
        LET k == calls[c]
        IN  /\ ( /\ k.op = "encrypt" /\ subtle /\ k.pc = "done"
                 /\ k.publicKey \in PublicKeys /\ ValidOpts(k.opts) )
               => (k.status = "resolved" /\ k.outEnv # NoEnvelope)
            /\ ( /\ k.op = "decrypt" /\ k.pc = "done"
                 /\ k.origin.flipped = "none"
                 /\ k.privateKey \in PrivateKeys
                 /\ EcPublic(k.privateKey) = k.origin.to )
               => (k.status = "resolved" /\ k.out = k.origin.plain)

C2_Witness ==
    \E c \in DOMAIN calls :
        /\ calls[c].op = "decrypt" /\ calls[c].status = "resolved"
        /\ calls[c].out = calls[c].origin.plain
        /\ Len(calls[c].out) = BackendSizes.block

\* C3, as stated: decrypt, under the recipient's key, of an envelope with one
\* bit of one field flipped always fails with Bad MAC.
C3_TamperIsBadMac ==
    \A c \in DOMAIN calls :
        LET k == calls[c]
        IN  (k.op = "decrypt" /\ k.origin.flipped # "none" /\ k.pc = "done")
            => (k.status = "rejected" /\ k.err = BadMac)

\* C3, amended: decrypt, under the recipient's key, of an envelope with one
\* bit of one field flipped never returns a plaintext and never invokes the
\* symmetric decryption; it fails with Bad MAC when the bit is in iv,
\* ciphertext or mac, with "Bad public key" when it is in the prefix byte of
\* ephemPublicKey, and with Bad MAC or the curve engine's error when it is in
\* a coordinate of ephemPublicKey.
C3_TamperNeverDecrypts ==
    \A c \in DOMAIN calls :
        LET k == calls[c]
        IN  (k.op = "decrypt" /\ k.origin.flipped # "none") =>
              /\ At(k, "aes.decrypt") = {}
              /\ k.status # "resolved" /\ NoValue(k)
              /\ k.pc = "done" =>
                   /\ k.status = "rejected"
                   /\ IF k.origin.flipped # "ephemPublicKey" THEN k.err = BadMac
                      ELSE IF k.origin.idx = 1 THEN k.err = "Bad public key"
                      ELSE k.err \in {BadMac, CurveError}

C3_Witness ==
    \E c \in DOMAIN calls :
        /\ calls[c].op = "decrypt" /\ calls[c].origin.flipped = "mac"
        /\ calls[c].status = "rejected" /\ calls[c].err = BadMac

\* C4, as stated: encrypt, decrypt, sign, verify and derive never raise an
\* error synchronously; every failure rejects the promise they return.
C4_NoSynchronousThrow ==
    \A c \in DOMAIN calls :
        calls[c].op \in {"encrypt", "decrypt", "sign", "verify", "derive"}
        => calls[c].status # "threw"

\* C5: getPublic, sign and derive fail with an invalid-input error when the
\* private key is not 32 bytes; sign and verify when the message is empty or
\* longer than 32 bytes; verify and derive when the public key is not 65
\* bytes or does not start with 0x04.  The curve engine is then not invoked
\* and no key, signature or secret is produced.
C5_Refused(k) ==
    \/ k.op \in {"getPublic", "sign", "derive"} /\ Len(k.privateKey) # 32
    \/ k.op \in {"sign", "verify"} /\ (Len(k.msg) = 0 \/ Len(k.msg) > 32)
    \/ k.op \in {"verify", "derive"}
         /\ (Len(k.publicKey) # 65 \/ k.publicKey[1] # 4)

C5_InputValidation ==
    \A c \in DOMAIN calls :
        LET k == calls[c]
        IN  C5_Refused(k) =>
              /\ Failed(k) /\ k.err \in InvalidInput
              /\ k.trace = <<>> /\ NoValue(k)

C5_Witness ==
    \E c \in DOMAIN calls :
        /\ calls[c].op = "verify" /\ Len(calls[c].publicKey) = 65
        /\ calls[c].publicKey[1] # 4 /\ WellFormedMsg(calls[c].msg)
        /\ calls[c].status = "rejected"

\* C6, as stated: with the backend present, encrypt and decrypt report a
\* malformed key (publicKeyTo, a supplied ephemPrivateKey, privateKey, the
\* envelope's ephemPublicKey) as invalid input before any random bytes are
\* drawn and before any collaborator is invoked.
C6_MalformedKey(k) ==
    \/ k.op = "encrypt"
         /\ \/ ~WellFormedPublic(k.publicKey)
            \/ k.opts.hasEph /\ Len(k.opts.ephemPrivateKey) # PrivateKeyLen
    \/ k.op = "decrypt"
         /\ \/ Len(k.privateKey) # PrivateKeyLen
            \/ ~WellFormedPublic(k.env.ephemPublicKey)

C6_KeysCheckedBeforeWork ==
    \A c \in DOMAIN calls :
        LET k == calls[c]
        IN  (subtle /\ C6_MalformedKey(k)) =>
              /\ Failed(k) /\ k.err \in InvalidInput
              /\ k.trace = <<>>

OwnEphem(k) ==
    IF k.opts.hasEph THEN k.opts.ephemPrivateKey
    ELSE k.trace[CHOOSE i \in At(k, "randomBytes") :
                    Len(k.trace[i].data) = PrivateKeyLen].data
OwnIv(k) ==
    IF k.opts.hasIv THEN k.opts.iv
    ELSE k.trace[CHOOSE i \in At(k, "randomBytes") :
                    Len(k.trace[i].data) = IvLen].data
HashOf(k) == Sha512(k.trace[CHOOSE i \in At(k, "sha512") : TRUE].data)

\* C8: every encrypt and decrypt call hashes the ECDH secret once; bytes
\* [0,32) of the hash are the key of every AES invocation and of none of the
\* HMAC ones, bytes [32,64) the key of every HMAC invocation, and the MAC
\* input is iv || ephemPublicKey || ciphertext.  The mac of an envelope that
\* encrypt returns is the HMAC, under that call's macKey, of the envelope's
\* own iv, ephemPublicKey and ciphertext; decrypt with the matching private
\* key hashes the same secret and verifies under the same key and input.
C8_KeySplitAndMacBinding ==
    \A c \in DOMAIN calls :
        LET k == calls[c]
            macInput == IF k.op = "encrypt"
                        THEN Concat(<<k.iv, k.ephemPublicKey, k.ciphertext>>)
                        ELSE Concat(<<k.env.iv, k.env.ephemPublicKey,
                                      k.env.ciphertext>>)
        IN  k.op \in {"encrypt", "decrypt"} =>
              /\ Cardinality(At(k, "sha512")) <= 1
              /\ k.pc \in {"hashed", "ciphered", "maced", "macChecked", "decrypted"}
                   => Cardinality(At(k, "sha512")) = 1
              /\ \A i \in At(k, "sha512") :
                   /\ \E j \in At(k, "ec.derive") : j < i
                   /\ Ok(k.trace[i].data) \in
                        (IF k.op = "encrypt"
                         THEN EcDerive(OwnEphem(k), k.publicKey)
                         ELSE EcDerive(k.privateKey, k.env.ephemPublicKey))
              /\ \A i \in At(k, "aes.encrypt") \cup At(k, "aes.decrypt") :
                   /\ At(k, "sha512") # {}
                   /\ k.trace[i].key = Slice(HashOf(k), 0, 32)
                   /\ k.trace[i].key # Slice(HashOf(k), 32, 64)
              /\ \A i \in At(k, "hmac.sign") \cup At(k, "hmac.verify") :
                   /\ At(k, "sha512") # {}
                   /\ k.trace[i].key = Slice(HashOf(k), 32, 64)
                   /\ k.trace[i].key # Slice(HashOf(k), 0, 32)
                   /\ k.trace[i].data = macInput
              /\ (k.op = "encrypt" /\ k.status = "resolved") =>
                   /\ k.outEnv.mac =
                        hmacSha256Sign(Slice(HashOf(k), 32, 64),
                                       Concat(<<k.outEnv.iv, k.outEnv.ephemPublicKey,
                                                k.outEnv.ciphertext>>))
                   /\ Ok(k.outEnv.ciphertext) =
                        aesCbcEncrypt(k.outEnv.iv, Slice(HashOf(k), 0, 32), k.msg)
              /\ ( /\ k.op = "decrypt" /\ k.origin.flipped = "none"
                   /\ k.privateKey \in PrivateKeys
                   /\ EcPublic(k.privateKey) = k.origin.to ) =>
                   /\ \A i \in At(k, "sha512") : k.trace[i].data = k.origin.secret
                   /\ \A i \in At(k, "hmac.verify") :
                        /\ k.trace[i].key = k.env.mac.key
                        /\ k.trace[i].data = k.env.mac.data
                   /\ \A i \in At(k, "aes.decrypt") :
                        k.trace[i].key = Slice(Sha512(k.origin.secret), 0, 32)

C8_Witness ==
    \E c \in DOMAIN calls :
        /\ calls[c].op = "decrypt" /\ calls[c].status = "resolved"
        /\ At(calls[c], "hmac.verify") # {} /\ At(calls[c], "aes.decrypt") # {}
        /\ EcPublic(calls[c].privateKey) = calls[c].origin.to

\* C9: every invocation ends, once, with its result or with an error (the
\* callbacks of a settled promise are run); the outcome of an ended call
\* does not change afterwards; and with an error no key, signature,
\* envelope or plaintext is delivered.
C9_SettlesOnce ==
    /\ [](\A c \in {1} : Failed(calls[c]) => NoValue(calls[c]))
    /\ [][\A c \in {1} : Settled(calls[c]) =>
             (calls'[c] = calls[c] \/ calls'[c] = Idle)]_vars
    /\ (calls[1].op # "none") ~> Settled(calls[1])

C9_Witness ==
    \E c \in DOMAIN calls :
        /\ calls[c].op = "encrypt" /\ calls[c].status = "rejected"
        /\ At(calls[c], "aes.encrypt") # {} /\ NoValue(calls[c])

\* the envelope of encrypt(publicKeyTo, msg) with the given ephemeral key and
\* IV, and the outcome of decrypt(privateKey, env), computed in one piece
EnvelopeAlone(publicKeyTo, msg, ephemPrivateKey, iv) ==
    LET Px == ToArray(PointMul(BnOf(ephemPrivateKey), DecodePoint(publicKeyTo))[1])
        ephemPublicKey == EcPublic(ephemPrivateKey)
        ciphertext == CbcEncrypt(iv, Slice(Sha512(Px), 0, 32), Pad(msg))
    IN  [iv |-> iv, ephemPublicKey |-> ephemPublicKey, ciphertext |-> ciphertext,
         mac |-> hmacSha256Sign(Slice(Sha512(Px), 32, 64),
                                iv \o ephemPublicKey \o ciphertext)]

PlainAlone(privateKey, env) ==
    LET Px == ToArray(PointMul(BnOf(privateKey), DecodePoint(env.ephemPublicKey))[1])
    IN  IF env.mac = hmacSha256Sign(Slice(Sha512(Px), 32, 64),
                                    env.iv \o env.ephemPublicKey \o env.ciphertext)
        THEN <<"resolved", "",
               Unpad(CbcDecrypt(env.iv, Slice(Sha512(Px), 0, 32), env.ciphertext))>>
        ELSE <<"rejected", BadMac, <<>>>>

\* C10: with the callbacks of several encrypt and decrypt calls interleaved,
\* every call's temporaries and result are those of the call run alone: an
\* envelope is made of the call's own ephemeral key, IV, recipient and
\* message, and a plaintext is decrypted from the call's own envelope under
\* the call's own private key.
C10_CallsIndependent ==
    \A c \in DOMAIN calls :
        LET k == calls[c]
        IN  /\ (k.op = "encrypt" /\ k.pc \in {"ciphered", "maced", "done"}) =>
                 LET alone == EnvelopeAlone(k.publicKey, k.msg, OwnEphem(k), OwnIv(k))
                 IN  /\ k.iv = alone.iv /\ k.ephemPublicKey = alone.ephemPublicKey
                     /\ k.pc = "ciphered" => k.val = alone.ciphertext
                     /\ k.pc = "maced" =>
                          k.ciphertext = alone.ciphertext /\ k.mac = alone.mac
                     /\ k.pc = "done" =>
                          k.status = "resolved" /\ k.outEnv = alone
            /\ (k.op = "decrypt" /\ k.pc = "done") =>
                 <<k.status, k.err, k.out>> = PlainAlone(k.privateKey, k.env)

C10_Witness ==
    \E c \in DOMAIN calls, d \in DOMAIN calls :
        /\ calls[c].op = "encrypt" /\ calls[c].pc = "ciphered"
        /\ calls[d].op = "decrypt" /\ calls[d].pc = "macChecked"
        /\ calls[d].macGood
        /\ calls[d].origin.to # calls[c].publicKey

=============================================================================
